---------------------------- MODULE Spec2Model ----------------------------
(***************************************************************************)
(* A model of freqdist's FrequencyDistribution<K> (src/src/lib.rs): a      *)
(* HashMap<K, usize> of counts together with a running sum of the counts.  *)
(*                                                                         *)
(* A distribution is the record [hashmap, sum_counts] of the struct's two  *)
(* fields.  A hashmap is a function whose domain is the set of stored      *)
(* keys.  Every method is an operator from a distribution to the           *)
(* distribution it leaves behind (or to the value it returns); the actions *)
(* apply one method call each to the distribution `fdist`.                 *)
(*                                                                         *)
(* usize arithmetic: the guards keep sum_counts at or below MaxSum, far    *)
(* below usize::MAX, so `+=` never wraps and is modelled as integer        *)
(* addition.  `-=` in remove is modelled as integer subtraction: a         *)
(* negative result stands for the underflow of the unsigned subtraction.   *)
(***************************************************************************)
EXTENDS Integers, Sequences, FiniteSets

\* ------------------------------------------------------------------ bounds

\* The keys a client uses.
Keys == {"a", "b"}

\* Largest increment of one (key, increment) pair given to extend/from_iter.
MaxIncr == 2

\* Longest sequence of pairs given to one extend/from_iter call.
MaxPairs == 2

\* Largest value sum_counts is driven to (guards of the ingesting actions).
MaxSum == 4

\* Placeholder of the `key` field of an operation that takes no key.
NoKey == "none"

\* ------------------------------------------------- HashMap<K, usize> model

\* HashMap::with_capacity_and_hash_state / with_hash_state: no entries.
EmptyMap == [x \in {} |-> 0]

\* HashMap::contains_key
contains_key(h, k) == k \in DOMAIN h

\* HashMap::insert(k, v)
map_insert(h, k, v) == [x \in (DOMAIN h) \cup {k} |-> IF x = k THEN v ELSE h[x]]

\* HashMap::remove(k), the map it leaves
map_remove(h, k) == [x \in (DOMAIN h) \ {k} |-> h[x]]

\* ------------------------------------------------- FrequencyDistribution

\* static ZERO: &'static usize = &0
ZERO == 0

\* with_capacity_and_hash_state(size, state): the capacity is a hint of the
\* underlying HashMap and no field of the struct.
with_capacity_and_hash_state(size) == [hashmap |-> EmptyMap, sum_counts |-> 0]

\* with_hash_state(state)
with_hash_state == [hashmap |-> EmptyMap, sum_counts |-> 0]

\* new()
new == with_hash_state

\* with_capacity(size)
with_capacity(size) == with_capacity_and_hash_state(size)

\* sum_counts(&self)
sum_counts(d) == d.sum_counts

\* len(&self)
len(d) == Cardinality(DOMAIN d.hashmap)

\* Index::index, as it would be with a sentinel of 1 for a missing key
index_wrong_sentinel(d, k) ==
  IF contains_key(d.hashmap, k) THEN d.hashmap[k] ELSE ZERO + 1

\* Index::index: self.hashmap.get(index).unwrap_or(ZERO)
index(d, k) == IF contains_key(d.hashmap, k) THEN d.hashmap[k] ELSE ZERO

\* get(&self, k): self[k]
get(d, k) == index(d, k)

\* insert_or_incr_by, as it would be with the new count overwriting the old
insert_or_incr_by_overwrite(d, k, incr) ==
  [hashmap |-> map_insert(d.hashmap, k, incr),
   sum_counts |-> d.sum_counts + incr]

\* insert_or_incr_by, as it would be without `self.sum_counts += incr`
insert_or_incr_by_nosum(d, k, incr) ==
  [hashmap |-> IF ~contains_key(d.hashmap, k)
                 THEN map_insert(d.hashmap, k, incr)
                 ELSE [d.hashmap EXCEPT ![k] = @ + incr],
   sum_counts |-> d.sum_counts]

\* insert_or_incr_by(&mut self, k, incr)
insert_or_incr_by(d, k, incr) ==
  [hashmap |-> IF ~contains_key(d.hashmap, k)
                 THEN map_insert(d.hashmap, k, incr)
                 ELSE [d.hashmap EXCEPT ![k] = @ + incr],
   sum_counts |-> d.sum_counts + incr]

\* insert, as it would be incrementing by 2
insert_by_two(d, k) == insert_or_incr_by(d, k, 2)

\* insert(&mut self, k)
insert(d, k) == insert_or_incr_by(d, k, 1)

\* extend(&mut self, iter): insert_or_incr_by for each pair, in order
RECURSIVE extend(_, _)
extend(d, pairs) ==
  IF pairs = <<>> THEN d
  ELSE extend(insert_or_incr_by(d, Head(pairs)[1], Head(pairs)[2]), Tail(pairs))

\* from_iter(iter): a vector's size_hint is (len, Some(len))
from_iter(pairs) == extend(with_capacity_and_hash_state(Len(pairs)), pairs)

\* clear(&mut self): self.hashmap.clear()
clear(d) == [hashmap |-> EmptyMap, sum_counts |-> d.sum_counts]

\* remove, as it would be keeping the entry's count in sum_counts
remove_nosub(d, k) ==
  IF contains_key(d.hashmap, k)
    THEN [hashmap |-> map_remove(d.hashmap, k), sum_counts |-> d.sum_counts]
    ELSE d

\* remove, as it would be subtracting one more than the entry's count
remove_oversub(d, k) ==
  IF contains_key(d.hashmap, k)
    THEN [hashmap |-> map_remove(d.hashmap, k),
          sum_counts |-> d.sum_counts - d.hashmap[k] - 1]
    ELSE d

\* remove, as it would be with the None arm resetting sum_counts
remove_none_resets(d, k) ==
  IF contains_key(d.hashmap, k)
    THEN [hashmap |-> map_remove(d.hashmap, k),
          sum_counts |-> d.sum_counts - d.hashmap[k]]
    ELSE [hashmap |-> d.hashmap, sum_counts |-> 0]

\* remove(&mut self, k)
remove(d, k) ==
  IF contains_key(d.hashmap, k)
    THEN [hashmap |-> map_remove(d.hashmap, k),
          sum_counts |-> d.sum_counts - d.hashmap[k]]
    ELSE d

\* ------------------------------------------------------ NonZeroKeysIter

\* The orders hash_map::Iter may visit the entries in: any permutation.
IterOrders(h) ==
  {s \in [1..Cardinality(DOMAIN h) -> DOMAIN h] :
     \A i, j \in 1..Cardinality(DOMAIN h) : i # j => s[i] # s[j]}

\* iter(&self): the (key, count) pairs the underlying iterator yields
iter_pairs(h, order) == [i \in 1..Len(order) |-> <<order[i], h[order[i]]>>]

\* The match guard of NonZeroKeysIter::next, as it would be with `*c >= 0`
yields_any(c) == c >= 0

\* The match guard of NonZeroKeysIter::next: `*c > 0`
yields(c) == c > 0

\* The loop of NonZeroKeysIter::next from position pos of the underlying
\* iterator: the position of the entry returned, Len(order) + 1 for None.
RECURSIVE next_pos(_, _, _)
next_pos(h, order, pos) ==
  IF pos > Len(order) THEN Len(order) + 1
  ELSE IF yields(h[order[pos]]) THEN pos
  ELSE next_pos(h, order, pos + 1)

\* No iterator borrows the distribution.
NoIter ==
  [active |-> FALSE, order |-> <<>>, pos |-> 1, done |-> FALSE,
   yielded |-> <<>>, calls |-> 0]

\* ------------------------------------------------------------- the state

VARIABLES
  fdist,     \* the distribution: [hashmap, sum_counts]
  pre,       \* the distribution as it was when the last call started
  op,        \* the last call: [name, key, pairs, again, ret]
  inserted,  \* keys ever passed to insert, extend or from_iter on fdist
  cleared,   \* clear() has been called on fdist
  iter       \* the live NonZeroKeysIter, or NoIter

vars == <<fdist, pre, op, inserted, cleared, iter>>

Pairs == Keys \X (0..MaxIncr)

PairSeqs == UNION {[1..n -> Pairs] : n \in 0..MaxPairs}

RECURSIVE TotalIncr(_)
TotalIncr(pairs) ==
  IF pairs = <<>> THEN 0 ELSE Head(pairs)[2] + TotalIncr(Tail(pairs))

PairKeys(pairs) == {pairs[i][1] : i \in 1..Len(pairs)}

Call(name, key, pairs, again, ret) ==
  [name |-> name, key |-> key, pairs |-> pairs, again |-> again, ret |-> ret]

Init ==
  /\ fdist \in {new} \cup {with_capacity(n) : n \in 0..MaxPairs}
  /\ pre = fdist
  /\ op = Call("new", NoKey, <<>>, FALSE, 0)
  /\ inserted = {}
  /\ cleared = FALSE
  /\ iter = NoIter

\* dist.insert(k)
Insert(k) ==
  /\ ~iter.active
  /\ fdist.sum_counts + 1 <= MaxSum
  /\ fdist' = insert(fdist, k)
  /\ pre' = fdist
  /\ op' = Call("insert", k, <<>>, FALSE, 0)
  /\ inserted' = inserted \cup {k}
  /\ UNCHANGED <<cleared, iter>>

\* dist.extend(pairs)
Extend(pairs) ==
  /\ ~iter.active
  /\ fdist.sum_counts + TotalIncr(pairs) <= MaxSum
  /\ fdist' = extend(fdist, pairs)
  /\ pre' = fdist
  /\ op' = Call("extend", NoKey, pairs, FALSE, 0)
  /\ inserted' = inserted \cup PairKeys(pairs)
  /\ UNCHANGED <<cleared, iter>>

\* dist = FromIterator::from_iter(pairs): a new distribution
FromIter(pairs) ==
  /\ ~iter.active
  /\ TotalIncr(pairs) <= MaxSum
  /\ fdist' = from_iter(pairs)
  /\ pre' = with_capacity_and_hash_state(Len(pairs))
  /\ op' = Call("from_iter", NoKey, pairs, FALSE, 0)
  /\ inserted' = PairKeys(pairs)
  /\ cleared' = FALSE
  /\ UNCHANGED iter

\* dist.remove(&k)
Remove(k) ==
  /\ ~iter.active
  /\ fdist' = remove(fdist, k)
  /\ pre' = fdist
  /\ op' = Call("remove", k, <<>>, op.name = "remove" /\ op.key = k, 0)
  /\ UNCHANGED <<inserted, cleared, iter>>

\* dist.clear()
Clear ==
  /\ ~iter.active
  /\ fdist' = clear(fdist)
  /\ pre' = fdist
  /\ op' = Call("clear", NoKey, <<>>, FALSE, 0)
  /\ cleared' = TRUE
  /\ UNCHANGED <<inserted, iter>>

\* dist.get(&k)
Get(k) ==
  /\ ~iter.active
  /\ pre' = fdist
  /\ op' = Call("get", k, <<>>, FALSE, get(fdist, k))
  /\ UNCHANGED <<fdist, inserted, cleared, iter>>

\* let mut iter = dist.iter_non_zero(): borrows dist until the iterator drops
IterNonZero ==
  /\ ~iter.active
  /\ \E order \in IterOrders(fdist.hashmap) :
       iter' = [active |-> TRUE, order |-> order, pos |-> 1, done |-> FALSE,
                yielded |-> <<>>, calls |-> 0]
  /\ pre' = fdist
  /\ op' = Call("iter_non_zero", NoKey, <<>>, FALSE, 0)
  /\ UNCHANGED <<fdist, inserted, cleared>>

\* iter.next()
NonZeroNext ==
  /\ iter.active
  /\ ~iter.done
  /\ LET p == next_pos(fdist.hashmap, iter.order, iter.pos) IN
       iter' = IF p <= Len(iter.order)
                 THEN [iter EXCEPT !.pos = p + 1,
                                   !.yielded = Append(@, iter.order[p]),
                                   !.calls = @ + 1]
                 ELSE [iter EXCEPT !.pos = p, !.done = TRUE, !.calls = @ + 1]
  /\ UNCHANGED <<fdist, pre, op, inserted, cleared>>

\* the iterator goes out of scope
DropIter ==
  /\ iter.active
  /\ iter' = NoIter
  /\ UNCHANGED <<fdist, pre, op, inserted, cleared>>

Next ==
  \/ \E k \in Keys : Insert(k)
  \/ \E pairs \in PairSeqs : Extend(pairs)
  \/ \E pairs \in PairSeqs : FromIter(pairs)
  \/ \E k \in Keys : Remove(k)
  \/ Clear
  \/ \E k \in Keys : Get(k)
  \/ IterNonZero
  \/ NonZeroNext
  \/ DropIter

Spec == Init /\ [][Next]_vars

\* ------------------------------------------------------------ properties

\* The sum of the counts stored in hashmap h.
RECURSIVE SumValues(_)
SumValues(h) ==
  IF DOMAIN h = {} THEN 0
  ELSE LET k == CHOOSE x \in DOMAIN h : TRUE
       IN h[k] + SumValues([x \in (DOMAIN h) \ {k} |-> h[x]])

\* The sum of the increments of the pairs of `pairs` whose key is k.
RECURSIVE IncrFor(_, _)
IncrFor(pairs, k) ==
  IF pairs = <<>> THEN 0
  ELSE (IF Head(pairs)[1] = k THEN Head(pairs)[2] ELSE 0) + IncrFor(Tail(pairs), k)

\* The number of pairs of `pairs` whose key is k.
Occurrences(pairs, k) == Cardinality({i \in 1..Len(pairs) : pairs[i][1] = k})

\* The stored keys whose count is greater than 0.
NonZeroKeys(h) == {k \in DOMAIN h : h[k] > 0}

\* The stored keys whose count is 0.
ZeroKeys(h) == {k \in DOMAIN h : h[k] = 0}

SeqRange(s) == {s[i] : i \in 1..Len(s)}

\* C1: in every reachable state sum_counts() equals the sum of the stored
\* counts of all keys currently in the map.
C1_SumEqualsStored == sum_counts(fdist) = SumValues(fdist.hashmap)

\* C2: right after clear() on a non-empty distribution, len() is 0,
\* sum_counts() is 0 and get(k) is 0 for every key that was present.
C2_ClearResetsAll ==
  (op.name = "clear" /\ len(pre) > 0) =>
    /\ len(fdist) = 0
    /\ sum_counts(fdist) = 0
    /\ \A k \in DOMAIN pre.hashmap : get(fdist, k) = 0

\* C3: insert(k) makes get(k) one greater than before (1 if k was absent),
\* makes sum_counts() one greater, and leaves get(j) unchanged for j # k.
C3_InsertIncrements ==
  op.name = "insert" =>
    /\ get(fdist, op.key) = get(pre, op.key) + 1
    /\ (~contains_key(pre.hashmap, op.key) => get(fdist, op.key) = 1)
    /\ sum_counts(fdist) = sum_counts(pre) + 1
    /\ \A j \in Keys \ {op.key} :
         /\ get(fdist, j) = get(pre, j)
         /\ contains_key(fdist.hashmap, j) <=> contains_key(pre.hashmap, j)

\* C3's case: insert of a key already counted, beside another counted key.
C3_Witness ==
  /\ op.name = "insert"
  /\ get(pre, op.key) > 0
  /\ \E j \in Keys \ {op.key} : get(pre, j) > 0

\* C4: remove(k) of a present key with count c deletes the entry (len() one
\* less, get(k) = 0), decreases sum_counts() by c, and leaves get(j)
\* unchanged for j # k.
C4_RemoveDeletes ==
  (op.name = "remove" /\ contains_key(pre.hashmap, op.key)) =>
    /\ ~contains_key(fdist.hashmap, op.key)
    /\ len(fdist) = len(pre) - 1
    /\ get(fdist, op.key) = 0
    /\ sum_counts(fdist) = sum_counts(pre) - pre.hashmap[op.key]
    /\ \A j \in Keys \ {op.key} :
         /\ get(fdist, j) = get(pre, j)
         /\ contains_key(fdist.hashmap, j) <=> contains_key(pre.hashmap, j)

\* C4's case: a key with a positive count removed, another one staying.
C4_Witness ==
  /\ op.name = "remove"
  /\ contains_key(pre.hashmap, op.key)
  /\ pre.hashmap[op.key] > 0
  /\ \E j \in Keys \ {op.key} : get(fdist, j) > 0

\* C5: remove(k) of a key that is not present (in particular right after a
\* previous remove(k)) changes neither the stored counts, nor len(), nor
\* sum_counts().
C5_RemoveAbsentNoOp ==
  (op.name = "remove" /\ ~contains_key(pre.hashmap, op.key)) =>
    /\ fdist.hashmap = pre.hashmap
    /\ len(fdist) = len(pre)
    /\ sum_counts(fdist) = sum_counts(pre)

\* C5's case: remove(k) right after remove(k), k once counted, on a
\* distribution that still counts something.
C5_Witness ==
  /\ op.name = "remove"
  /\ op.again
  /\ op.key \in inserted
  /\ ~contains_key(pre.hashmap, op.key)
  /\ sum_counts(fdist) > 0
  /\ len(fdist) > 0

\* C6: after extend(pairs) or from_iter(pairs), get(k) is its value before
\* the call plus the sum of the increments of the pairs whose key is k, and
\* sum_counts() has grown by the sum of all increments; after from_iter a key
\* appearing once has its pair's increment as count and sum_counts() is the
\* sum of all increments.
C6_ExtendAccumulates ==
  (op.name \in {"extend", "from_iter"}) =>
    /\ \A k \in Keys : get(fdist, k) = get(pre, k) + IncrFor(op.pairs, k)
    /\ sum_counts(fdist) = sum_counts(pre) + TotalIncr(op.pairs)
    /\ op.name = "from_iter" =>
         /\ sum_counts(fdist) = TotalIncr(op.pairs)
         /\ \A i \in 1..Len(op.pairs) :
              Occurrences(op.pairs, op.pairs[i][1]) = 1 =>
                get(fdist, op.pairs[i][1]) = op.pairs[i][2]

\* C6's case: extend with a key repeated in the sequence, with positive
\* increments, onto a distribution that already counts that key.
C6_Witness ==
  /\ op.name = "extend"
  /\ \E i, j \in 1..Len(op.pairs) :
       /\ i # j
       /\ op.pairs[i][1] = op.pairs[j][1]
       /\ op.pairs[i][2] > 0
       /\ op.pairs[j][2] > 0
       /\ get(pre, op.pairs[i][1]) > 0

\* C7: get(k) is 0 for every key never passed to insert, extend or
\* from_iter, and a get call changes neither the counts nor sum_counts().
C7_GetNeverInsertedIsZero ==
  /\ \A k \in Keys \ inserted : get(fdist, k) = 0
  /\ op.name = "get" =>
       /\ fdist = pre
       /\ (op.key \notin inserted => op.ret = 0)

\* C7's case: get of a never-ingested key on a distribution counting others.
C7_Witness ==
  /\ op.name = "get"
  /\ op.key \notin inserted
  /\ sum_counts(fdist) > 0
  /\ len(fdist) > 0

\* C8: a run of iter_non_zero() ends (within one next() call per non-zero
\* key, plus the one returning None) having yielded exactly the stored keys
\* whose count is greater than 0, each once; a key stored with count 0 is
\* never yielded, although len() counts it and iter() yields it.
C8_NonZeroIterExact ==
  iter.active =>
    /\ \A i, j \in 1..Len(iter.yielded) :
         i # j => iter.yielded[i] # iter.yielded[j]
    /\ SeqRange(iter.yielded) \subseteq NonZeroKeys(fdist.hashmap)
    /\ iter.calls <= Cardinality(NonZeroKeys(fdist.hashmap)) + 1
    /\ ~iter.done => ENABLED NonZeroNext
    /\ iter.done => SeqRange(iter.yielded) = NonZeroKeys(fdist.hashmap)
    /\ \A k \in ZeroKeys(fdist.hashmap) :
         /\ k \notin SeqRange(iter.yielded)
         /\ len(fdist) >= Cardinality(NonZeroKeys(fdist.hashmap)) + 1
         /\ <<k, 0>> \in SeqRange(iter_pairs(fdist.hashmap, iter.order))

\* C8's case: a finished run over a distribution that stores a key with
\* count 0 before a key with a positive count.
C8_Witness ==
  /\ iter.active
  /\ iter.done
  /\ Len(iter.order) = 2
  /\ fdist.hashmap[iter.order[1]] = 0
  /\ iter.yielded = <<iter.order[2]>>

\* C9: as long as clear() has not been called on the distribution,
\* sum_counts() equals the sum of the stored counts.
C9_SumInvariantWithoutClear ==
  ~cleared => sum_counts(fdist) = SumValues(fdist.hashmap)

\* C9's case: a remove of a counted key, after ingestion and without any
\* clear(), leaving other counts behind.
C9_Witness ==
  /\ ~cleared
  /\ op.name = "remove"
  /\ get(pre, op.key) > 0
  /\ sum_counts(fdist) > 0

\* C10: sum_counts() is at least the sum of the stored counts, so the
\* subtraction in remove never goes below 0, also after a clear() and
\* further inserts.
C10_SumCountsDominates ==
  /\ sum_counts(fdist) >= SumValues(fdist.hashmap)
  /\ sum_counts(fdist) >= 0
  /\ (op.name = "remove" /\ contains_key(pre.hashmap, op.key)) =>
       sum_counts(pre) >= pre.hashmap[op.key]

\* C10's case: a remove of a counted key after a clear() and further
\* ingestion, sum_counts() exceeding the stored counts.
C10_Witness ==
  /\ cleared
  /\ op.name = "remove"
  /\ get(pre, op.key) > 0
  /\ sum_counts(pre) > SumValues(pre.hashmap)

=============================================================================
